---- MODULE Spec2Model ----
(***************************************************************************)
(* Task scheduler (assignment.py): Task records, the TaskManager store and *)
(* its whole-file JSON persistence.                                        *)
(*                                                                         *)
(* Text is modelled as a sequence of character codes, so that Python's     *)
(* string ordering and strptime act on the characters.  A Python object is *)
(* a tagged value [t |-> type, v |-> payload].  The backing file holds the *)
(* JSON document as a sequence of lexical tokens (whitespace and indent    *)
(* dropped), so that a truncated write is a prefix of the document.        *)
(***************************************************************************)
EXTENDS Integers, Sequences, FiniteSets, TLC

VARIABLES tasks, file, call, raised, returned, out, wrote

vars == <<tasks, file, call, raised, returned, out, wrote>>

(***************************************************************************)
(* Bounds of the model.                                                    *)
(***************************************************************************)
MaxTasks == 2

(***************************************************************************)
(* Text constants (sequences of character codes).                          *)
(***************************************************************************)
\* "title", "description", "priority", "due_date", "completed"
K_title == <<116, 105, 116, 108, 101>>
K_description == <<100, 101, 115, 99, 114, 105, 112, 116, 105, 111, 110>>
K_priority == <<112, 114, 105, 111, 114, 105, 116, 121>>
K_due_date == <<100, 117, 101, 95, 100, 97, 116, 101>>
K_completed == <<99, 111, 109, 112, 108, 101, 116, 101, 100>>

\* "Pay", "rent"
T_Pay == <<80, 97, 121>>
T_Rent == <<114, 101, 110, 116>>

\* "2024-02-27", "2024-03-01", "2024-02-30" (no such day)
D_0227 == <<50, 48, 50, 52, 45, 48, 50, 45, 50, 55>>
D_0301 == <<50, 48, 50, 52, 45, 48, 51, 45, 48, 49>>
D_0230 == <<50, 48, 50, 52, 45, 48, 50, 45, 51, 48>>

(***************************************************************************)
(* Python objects.                                                         *)
(***************************************************************************)
PyStr(s) == [t |-> "str", v |-> s]
PyInt(n) == [t |-> "int", v |-> n]
PyBool(b) == [t |-> "bool", v |-> b]
PyNone == [t |-> "NoneType", v |-> <<>>]
PyList(xs) == [t |-> "list", v |-> xs]
PyDict(items) == [t |-> "dict", v |-> items]

\* bool(x)
Truthy(x) ==
  CASE x.t = "bool" -> x.v
    [] x.t = "int" -> x.v # 0
    [] x.t = "NoneType" -> FALSE
    [] OTHER -> Len(x.v) > 0

\* Position of key k in an insertion-ordered dict's items, 0 when absent.
RECURSIVE KeyIndex(_, _, _)
KeyIndex(items, k, i) ==
  IF i > Len(items) THEN 0
  ELSE IF items[i].k = k THEN i
  ELSE KeyIndex(items, k, i + 1)

\* d[k] = v on a dict's items: overwrite in place, or insert at the end.
DictSet(items, k, val) ==
  LET i == KeyIndex(items, k, 1) IN
    IF i = 0 THEN Append(items, [k |-> k, v |-> val])
    ELSE [items EXCEPT ![i] = [k |-> k, v |-> val]]

\* The result of an expression that may raise: exc = "none" and a value, or
\* the name of the exception raised.
Value(x) == [exc |-> "none", val |-> x]
Raise(e) == [exc |-> e, val |-> PyNone]

\* obj[key] for a str key.
GetItem(obj, key) ==
  IF obj.t = "dict"
  THEN LET i == KeyIndex(obj.v, key, 1) IN
         IF i = 0 THEN Raise("KeyError") ELSE Value(obj.v[i].v)
  ELSE Raise("TypeError")

\* obj.get(key, default); obj has passed four GetItem's, so it is a dict.
DictGet(obj, key, default) ==
  IF obj.t = "dict"
  THEN LET i == KeyIndex(obj.v, key, 1) IN
         IF i = 0 THEN Value(default) ELSE Value(obj.v[i].v)
  ELSE Raise("AttributeError")

\* The objects `for d in obj` yields.
Iterate(obj) ==
  CASE obj.t = "list" -> Value(obj.v)
    [] obj.t = "dict" -> Value([i \in 1..Len(obj.v) |-> PyStr(obj.v[i].k)])
    [] obj.t = "str" -> Value([i \in 1..Len(obj.v) |-> PyStr(<<obj.v[i]>>)])
    [] OTHER -> Raise("TypeError")

(***************************************************************************)
(* class Task                                                              *)
(***************************************************************************)
Task(title, description, priority, due_date, completed) ==
  [title |-> title, description |-> description, priority |-> priority,
   due_date |-> due_date, completed |-> completed]

NewTask(title, description, priority, due_date) ==
  Task(title, description, priority, due_date, PyBool(FALSE))

to_dict(task) ==
  PyDict(<<[k |-> K_title, v |-> task.title],
           [k |-> K_description, v |-> task.description],
           [k |-> K_priority, v |-> task.priority],
           [k |-> K_due_date, v |-> task.due_date],
           [k |-> K_completed, v |-> task.completed]>>)

NoTask == Task(PyNone, PyNone, PyNone, PyNone, PyNone)

\* Mutant: "completed" is not read back; every loaded task is incomplete.
from_dict_incomplete(data) ==
  LET a == GetItem(data, K_title)
      b == GetItem(data, K_description)
      c == GetItem(data, K_priority)
      d == GetItem(data, K_due_date)
  IN  IF a.exc # "none" THEN [exc |-> a.exc, val |-> NoTask]
      ELSE IF b.exc # "none" THEN [exc |-> b.exc, val |-> NoTask]
      ELSE IF c.exc # "none" THEN [exc |-> c.exc, val |-> NoTask]
      ELSE IF d.exc # "none" THEN [exc |-> d.exc, val |-> NoTask]
      ELSE [exc |-> "none", val |-> Task(a.val, b.val, c.val, d.val, PyBool(FALSE))]

from_dict(data) ==
  LET a == GetItem(data, K_title)
      b == GetItem(data, K_description)
      c == GetItem(data, K_priority)
      d == GetItem(data, K_due_date)
      e == DictGet(data, K_completed, PyBool(FALSE))
  IN  IF a.exc # "none" THEN [exc |-> a.exc, val |-> NoTask]
      ELSE IF b.exc # "none" THEN [exc |-> b.exc, val |-> NoTask]
      ELSE IF c.exc # "none" THEN [exc |-> c.exc, val |-> NoTask]
      ELSE IF d.exc # "none" THEN [exc |-> d.exc, val |-> NoTask]
      ELSE IF e.exc # "none" THEN [exc |-> e.exc, val |-> NoTask]
      ELSE [exc |-> "none", val |-> Task(a.val, b.val, c.val, d.val, e.val)]

(***************************************************************************)
(* json.dump / json.load on token sequences.                               *)
(***************************************************************************)
Punct(c) == [t |-> c, v |-> <<>>]
TokString(s) == [t |-> "string", v |-> s]
TokNumber(n) == [t |-> "number", v |-> n]

\* seqs[1] \o sep \o seqs[2] \o ...
RECURSIVE Join(_, _)
Join(seqs, sep) ==
  IF Len(seqs) = 0 THEN <<>>
  ELSE IF Len(seqs) = 1 THEN seqs[1]
  ELSE seqs[1] \o sep \o Join(Tail(seqs), sep)

RECURSIVE json_dumps(_)
json_dumps(obj) ==
  CASE obj.t = "str" -> <<TokString(obj.v)>>
    [] obj.t = "int" -> <<TokNumber(obj.v)>>
    [] obj.t = "bool" -> <<Punct(IF obj.v THEN "true" ELSE "false")>>
    [] obj.t = "NoneType" -> <<Punct("null")>>
    [] obj.t = "list" ->
         <<Punct("[")>>
         \o Join([i \in 1..Len(obj.v) |-> json_dumps(obj.v[i])], <<Punct(",")>>)
         \o <<Punct("]")>>
    [] obj.t = "dict" ->
         <<Punct("{")>>
         \o Join([i \in 1..Len(obj.v) |->
                    <<TokString(obj.v[i].k), Punct(":")>> \o json_dumps(obj.v[i].v)],
                 <<Punct(",")>>)
         \o <<Punct("}")>>

ParseFail == [ok |-> FALSE, val |-> PyNone, next |-> 0]
ParseOk(x, n) == [ok |-> TRUE, val |-> x, next |-> n]

RECURSIVE ParseValue(_, _)
RECURSIVE ParseElements(_, _, _)
RECURSIVE ParseMembers(_, _, _)

ParseValue(toks, i) ==
  IF i > Len(toks) THEN ParseFail
  ELSE CASE toks[i].t = "string" -> ParseOk(PyStr(toks[i].v), i + 1)
         [] toks[i].t = "number" -> ParseOk(PyInt(toks[i].v), i + 1)
         [] toks[i].t = "true" -> ParseOk(PyBool(TRUE), i + 1)
         [] toks[i].t = "false" -> ParseOk(PyBool(FALSE), i + 1)
         [] toks[i].t = "null" -> ParseOk(PyNone, i + 1)
         [] toks[i].t = "[" ->
              IF i + 1 <= Len(toks) /\ toks[i + 1].t = "]"
              THEN ParseOk(PyList(<<>>), i + 2)
              ELSE ParseElements(toks, i + 1, <<>>)
         [] toks[i].t = "{" ->
              IF i + 1 <= Len(toks) /\ toks[i + 1].t = "}"
              THEN ParseOk(PyDict(<<>>), i + 2)
              ELSE ParseMembers(toks, i + 1, <<>>)
         [] OTHER -> ParseFail

ParseElements(toks, i, acc) ==
  LET r == ParseValue(toks, i) IN
    IF ~r.ok \/ r.next > Len(toks) THEN ParseFail
    ELSE IF toks[r.next].t = ","
         THEN ParseElements(toks, r.next + 1, Append(acc, r.val))
    ELSE IF toks[r.next].t = "]"
         THEN ParseOk(PyList(Append(acc, r.val)), r.next + 1)
    ELSE ParseFail

ParseMembers(toks, i, acc) ==
  IF i + 1 > Len(toks) \/ toks[i].t # "string" \/ toks[i + 1].t # ":"
  THEN ParseFail
  ELSE LET r == ParseValue(toks, i + 2) IN
    IF ~r.ok \/ r.next > Len(toks) THEN ParseFail
    ELSE IF toks[r.next].t = ","
         THEN ParseMembers(toks, r.next + 1, DictSet(acc, toks[i].v, r.val))
    ELSE IF toks[r.next].t = "}"
         THEN ParseOk(PyDict(DictSet(acc, toks[i].v, r.val)), r.next + 1)
    ELSE ParseFail

\* json.load: the whole text must be one document.
json_loads(text) ==
  LET r == ParseValue(text, 1) IN
    IF r.ok /\ r.next = Len(text) + 1 THEN Value(r.val)
    ELSE Raise("JSONDecodeError")

(***************************************************************************)
(* datetime: strptime(s, "%Y-%m-%d"), date ordinals, timedelta.days.       *)
(***************************************************************************)
SecondsPerDay == 86400

IsDigit(c) == c \in 48..57
NonZeroDigit(c) == c \in 49..57
Dash == 45
Space == 32

IsLeap(y) == (y % 4 = 0) /\ ((y % 100 # 0) \/ (y % 400 = 0))

DaysInMonth(y, m) ==
  IF m = 2 THEN (IF IsLeap(y) THEN 29 ELSE 28)
  ELSE IF m \in {4, 6, 9, 11} THEN 30
  ELSE 31

RECURSIVE DaysBeforeMonth(_, _)
DaysBeforeMonth(y, m) ==
  IF m <= 1 THEN 0 ELSE DaysBeforeMonth(y, m - 1) + DaysInMonth(y, m - 1)

\* date.toordinal()
Ordinal(d) ==
  LET y == d.y - 1 IN
    y * 365 + (y \div 4) - (y \div 100) + (y \div 400)
    + DaysBeforeMonth(d.y, d.m) + d.d

NoDate == [y |-> 0, m |-> 0, d |-> 0]

\* The %m directive: 1[0-2] | 0[1-9] | [1-9]
MonthField(f) ==
  \/ Len(f) = 2 /\ f[1] = 49 /\ f[2] \in 48..50
  \/ Len(f) = 2 /\ f[1] = 48 /\ NonZeroDigit(f[2])
  \/ Len(f) = 1 /\ NonZeroDigit(f[1])

\* The %d directive: 3[01] | [12]\d | 0[1-9] | [1-9] | " "[1-9]
DayField(f) ==
  \/ Len(f) = 2 /\ f[1] = 51 /\ f[2] \in 48..49
  \/ Len(f) = 2 /\ f[1] \in 49..50 /\ IsDigit(f[2])
  \/ Len(f) = 2 /\ f[1] = 48 /\ NonZeroDigit(f[2])
  \/ Len(f) = 1 /\ NonZeroDigit(f[1])
  \/ Len(f) = 2 /\ f[1] = Space /\ NonZeroDigit(f[2])

RECURSIVE FieldValue(_)
FieldValue(f) ==
  IF Len(f) = 0 THEN 0
  ELSE IF f[Len(f)] = Space THEN FieldValue(SubSeq(f, 1, Len(f) - 1))
  ELSE 10 * FieldValue(SubSeq(f, 1, Len(f) - 1)) + (f[Len(f)] - 48)

\* datetime.strptime(obj, "%Y-%m-%d"): the date, or the exception raised.
strptime(obj) ==
  IF obj.t # "str" THEN [exc |-> "TypeError", val |-> NoDate]
  ELSE
    LET s == obj.v
        n == Len(s)
        yearOk == n >= 5 /\ (\A i \in 1..4 : IsDigit(s[i])) /\ s[5] = Dash
        second == IF yearOk /\ n >= 8 /\ s[8] = Dash /\ MonthField(SubSeq(s, 6, 7))
                  THEN 8
                  ELSE IF yearOk /\ n >= 7 /\ s[7] = Dash /\ MonthField(SubSeq(s, 6, 6))
                  THEN 7
                  ELSE 0
        dayF == SubSeq(s, second + 1, n)
    IN  IF second = 0 \/ ~DayField(dayF)
        THEN [exc |-> "ValueError", val |-> NoDate]
        ELSE LET y == FieldValue(SubSeq(s, 1, 4))
                 m == FieldValue(SubSeq(s, 6, second - 1))
                 d == FieldValue(dayF)
             IN  IF y < 1 \/ d > DaysInMonth(y, m)
                 THEN [exc |-> "ValueError", val |-> NoDate]
                 ELSE [exc |-> "none", val |-> [y |-> y, m |-> m, d |-> d]]

\* (due - today).days, due at midnight and today = datetime.today(), which
\* carries the time of day: timedelta normalises to days = floor(seconds / 86400).
DeltaDays(due, today) ==
  ((Ordinal(due) - Ordinal(today.date)) * SecondsPerDay - today.sec)
    \div SecondsPerDay

(***************************************************************************)
(* Python ordering of sort keys.                                           *)
(***************************************************************************)
RECURSIVE StrLess(_, _)
StrLess(a, b) ==
  IF Len(b) = 0 THEN FALSE
  ELSE IF Len(a) = 0 THEN TRUE
  ELSE IF a[1] # b[1] THEN a[1] < b[1]
  ELSE StrLess(Tail(a), Tail(b))

IntOf(x) == IF x.t = "bool" THEN (IF x.v THEN 1 ELSE 0) ELSE x.v

\* Mutant: the comparison reversed (a descending sort).
PyLessReversed(a, b) ==
  IF a.t = "str" THEN StrLess(b.v, a.v) ELSE IntOf(b) < IntOf(a)

\* a < b for two keys of comparable types.
PyLess(a, b) ==
  IF a.t = "str" THEN StrLess(a.v, b.v) ELSE IntOf(a) < IntOf(b)

\* Whether sorted() can compare the keys: all str, or all numbers.
Comparable(keys) ==
  \/ Len(keys) <= 1
  \/ \A i \in 1..Len(keys) : keys[i].t = "str"
  \/ \A i \in 1..Len(keys) : keys[i].t \in {"int", "bool"}

KeyOf(task, by) == IF by = "due_date" THEN task.due_date ELSE task.priority

\* Insert x after every element whose key is not greater (stable).
RECURSIVE InsertSorted(_, _, _)
InsertSorted(xs, x, by) ==
  IF Len(xs) = 0 THEN <<x>>
  ELSE IF PyLess(KeyOf(x, by), KeyOf(xs[1], by)) THEN <<x>> \o xs
  ELSE <<xs[1]>> \o InsertSorted(Tail(xs), x, by)

\* sorted(ts, key=lambda t: t.<by>): a new list, ts untouched.
RECURSIVE sorted(_, _)
sorted(ts, by) ==
  IF Len(ts) = 0 THEN <<>>
  ELSE InsertSorted(sorted(SubSeq(ts, 1, Len(ts) - 1), by), ts[Len(ts)], by)

(***************************************************************************)
(* class TaskManager.  Each method is an operator from the store (tasks,   *)
(* file) and its inputs to the store after the call, the exception that    *)
(* leaves the method, and what it printed.                                 *)
(***************************************************************************)
NoFile == [exists |-> FALSE, text |-> <<>>]
FileOf(text) == [exists |-> TRUE, text |-> text]

NoOutput == [msg |-> "", rows |-> <<>>, total |-> 0, incomplete |-> 0]
Printed(msg, rows) == [msg |-> msg, rows |-> rows, total |-> 0, incomplete |-> 0]

\* The ways the write of the file can go: "none" (it succeeds), "open" (open()
\* raises and nothing is touched), "empty" (the file is truncated by open() and
\* no data reaches it), "truncated" (the data stops short of the end).
WriteFaults == {"none", "open", "empty", "truncated"}

Document(ts) == json_dumps(PyList([i \in 1..Len(ts) |-> to_dict(ts[i])]))

\* Mutant: the write is wrapped in a handler that swallows the OSError.
save_tasks_swallowed(ts, f, fault) ==
  LET text == Document(ts) IN
    CASE fault = "none" -> [file |-> FileOf(text), exc |-> "none"]
      [] fault = "open" -> [file |-> f, exc |-> "none"]
      [] fault = "empty" -> [file |-> FileOf(<<>>), exc |-> "none"]
      [] fault = "truncated" ->
           [file |-> FileOf(SubSeq(text, 1, Len(text) - 1)), exc |-> "none"]

\* save_tasks: no handler, an OSError leaves the method.
save_tasks(ts, f, fault) ==
  LET text == Document(ts) IN
    CASE fault = "none" -> [file |-> FileOf(text), exc |-> "none"]
      [] fault = "open" -> [file |-> f, exc |-> "OSError"]
      [] fault = "empty" -> [file |-> FileOf(<<>>), exc |-> "OSError"]
      [] fault = "truncated" ->
           [file |-> FileOf(SubSeq(text, 1, Len(text) - 1)), exc |-> "OSError"]

\* The classes `except Exception` catches.
IsException(e) ==
  e \in {"JSONDecodeError", "KeyError", "TypeError", "AttributeError",
         "ValueError", "OSError"}

\* Mutant: the records read before a bad one are kept.
RECURSIVE FromDictsPartial(_, _, _)
FromDictsPartial(elems, i, acc) ==
  IF i > Len(elems) THEN [exc |-> "none", val |-> acc]
  ELSE LET r == from_dict(elems[i]) IN
    IF r.exc # "none" THEN [exc |-> "none", val |-> acc]
    ELSE FromDictsPartial(elems, i + 1, Append(acc, r.val))

\* [Task.from_dict(d) for d in elems]: the list, or the first exception.
RECURSIVE FromDicts(_, _, _)
FromDicts(elems, i, acc) ==
  IF i > Len(elems) THEN [exc |-> "none", val |-> acc]
  ELSE LET r == from_dict(elems[i]) IN
    IF r.exc # "none" THEN [exc |-> r.exc, val |-> <<>>]
    ELSE FromDicts(elems, i + 1, Append(acc, r.val))

\* The body of the try block: json.load, then the comprehension; self.tasks
\* is assigned only when both complete.
TryLoad(f) ==
  LET data == json_loads(f.text) IN
    IF data.exc # "none" THEN [exc |-> data.exc, val |-> <<>>]
    ELSE LET it == Iterate(data.val) IN
      IF it.exc # "none" THEN [exc |-> it.exc, val |-> <<>>]
      ELSE FromDicts(it.val, 1, <<>>)

\* load_tasks on a store whose tasks are [] (set by __init__).
load_tasks(f) ==
  IF f.exists
  THEN LET r == TryLoad(f) IN
         IF r.exc = "none" THEN [tasks |-> r.val, exc |-> "none"]
         ELSE IF IsException(r.exc) THEN [tasks |-> <<>>, exc |-> "none"]
         ELSE [tasks |-> <<>>, exc |-> r.exc]
  ELSE [tasks |-> <<>>, exc |-> "none"]

\* Mutant: the new task is put at the front of the list.
add_task_front(ts, f, title, description, priority, due_date, fault) ==
  LET appended == <<NewTask(title, description, priority, due_date)>> \o ts
      s == save_tasks(appended, f, fault)
  IN  [tasks |-> appended, file |-> s.file, exc |-> s.exc, out |-> NoOutput]

\* Mutant: the task is appended and the file is not written.
add_task_unsaved(ts, f, title, description, priority, due_date, fault) ==
  [tasks |-> Append(ts, NewTask(title, description, priority, due_date)),
   file |-> f, exc |-> "none", out |-> NoOutput]

add_task(ts, f, title, description, priority, due_date, fault) ==
  LET appended == Append(ts, NewTask(title, description, priority, due_date))
      s == save_tasks(appended, f, fault)
  IN  [tasks |-> appended, file |-> s.file, exc |-> s.exc, out |-> NoOutput]

list_tasks(ts) ==
  IF Len(ts) = 0 THEN Printed("No tasks found.", <<>>)
  ELSE Printed("All Tasks:", ts)

\* Mutant: the store's own list is sorted in place (self.tasks.sort(...)).
sort_tasks_in_place(ts, by) ==
  LET sorted_tasks == IF by \in {"due_date", "priority"}
                      THEN sorted(ts, by) ELSE ts
  IN  [tasks |-> sorted_tasks, exc |-> "none",
       out |-> IF Len(sorted_tasks) = 0
               THEN Printed("No tasks to sort.", <<>>)
               ELSE Printed("Tasks sorted by", sorted_tasks)]

\* sort_tasks: the rows printed are the sorted copy; an unknown key keeps the
\* current order.
sort_tasks(ts, by) ==
  IF by \in {"due_date", "priority"}
     /\ ~Comparable([i \in 1..Len(ts) |-> KeyOf(ts[i], by)])
  THEN [tasks |-> ts, exc |-> "TypeError", out |-> NoOutput]
  ELSE LET sorted_tasks == IF by \in {"due_date", "priority"}
                           THEN sorted(ts, by) ELSE ts
       IN  [tasks |-> ts, exc |-> "none",
            out |-> IF Len(sorted_tasks) = 0
                    THEN Printed("No tasks to sort.", <<>>)
                    ELSE Printed("Tasks sorted by", sorted_tasks)]

InRange(ts, index) == 0 <= index /\ index < Len(ts)

\* Mutant: every task is marked, not only the one at index.
mark_complete_all(ts, f, index, fault) ==
  IF 0 <= index /\ index < Len(ts)
  THEN LET marked == [i \in 1..Len(ts) |-> [ts[i] EXCEPT !.completed = PyBool(TRUE)]]
           s == save_tasks(marked, f, fault)
       IN  [tasks |-> marked, file |-> s.file, exc |-> s.exc, ret |-> "None",
            out |-> IF s.exc = "none"
                    THEN Printed("marked as complete.", <<marked[index + 1]>>)
                    ELSE NoOutput]
  ELSE [tasks |-> ts, file |-> f, exc |-> "none", ret |-> "None",
        out |-> Printed("Invalid task number.", <<>>)]

\* Mutant: the lower bound is not tested, so that a negative index counts from
\* the end of the list as Python's indexing does.
mark_complete_negative(ts, f, index, fault) ==
  IF index < Len(ts) /\ -Len(ts) <= index
  THEN LET at == IF index < 0 THEN Len(ts) + index + 1 ELSE index + 1
           marked == [ts EXCEPT ![at].completed = PyBool(TRUE)]
           s == save_tasks(marked, f, fault)
       IN  [tasks |-> marked, file |-> s.file, exc |-> s.exc, ret |-> "None",
            out |-> IF s.exc = "none"
                    THEN Printed("marked as complete.", <<marked[at]>>)
                    ELSE NoOutput]
  ELSE [tasks |-> ts, file |-> f, exc |-> "none", ret |-> "None",
        out |-> Printed("Invalid task number.", <<>>)]

\* mark_complete: index is zero-based.  Neither branch has a return statement,
\* so the call evaluates to None on both.
mark_complete(ts, f, index, fault) ==
  IF InRange(ts, index)
  THEN LET marked == [ts EXCEPT ![index + 1].completed = PyBool(TRUE)]
           s == save_tasks(marked, f, fault)
       IN  [tasks |-> marked, file |-> s.file, exc |-> s.exc, ret |-> "None",
            out |-> IF s.exc = "none"
                    THEN Printed("marked as complete.", <<marked[index + 1]>>)
                    ELSE NoOutput]
  ELSE [tasks |-> ts, file |-> f, exc |-> "none", ret |-> "None",
        out |-> Printed("Invalid task number.", <<>>)]

\* Whether view_summary appends t to soon.
DueSoon(t, today) ==
  LET due == strptime(t.due_date) IN
    /\ due.exc = "none"
    /\ ~Truthy(t.completed)
    /\ 0 <= DeltaDays(due.val, today)
    /\ DeltaDays(due.val, today) <= 3

RECURSIVE Filter(_, _)
Filter(ts, today) ==
  IF Len(ts) = 0 THEN <<>>
  ELSE (IF DueSoon(ts[1], today) THEN <<ts[1]>> ELSE <<>>)
       \o Filter(Tail(ts), today)

view_summary(ts, today) ==
  [msg |-> "Summary:",
   rows |-> Filter(ts, today),
   total |-> Len(ts),
   incomplete |-> Cardinality({i \in 1..Len(ts) : ~Truthy(ts[i].completed)})]

(***************************************************************************)
(* Inputs.                                                                 *)
(***************************************************************************)
Titles == {T_Pay}
Descriptions == {T_Rent}
Priorities == {1, 2}
DueDates == {D_0227, D_0301, D_0230}
SortKeys == {"due_date", "priority", "title"}

\* The add_task arguments main() can pass, and the ones drawn in Spec.
AllInputs ==
  {[title |-> PyStr(t), description |-> PyStr(d), priority |-> PyInt(p),
    due_date |-> PyStr(dd)] :
     t \in Titles, d \in Descriptions, p \in Priorities, dd \in DueDates}
AddInputs ==
  {a \in AllInputs :
     <<a.priority.v, a.due_date.v>> \in {<<2, D_0227>>, <<1, D_0301>>, <<1, D_0230>>}}
NoInput ==
  [title |-> PyNone, description |-> PyNone, priority |-> PyNone,
   due_date |-> PyNone]

\* Moments at which view_summary runs: 2024-02-27 at midnight and at 10:00,
\* and 2024-02-26 at 10:00.
Moments ==
  {[date |-> [y |-> 2024, m |-> 2, d |-> 27], sec |-> 0],
   [date |-> [y |-> 2024, m |-> 2, d |-> 27], sec |-> 36000],
   [date |-> [y |-> 2024, m |-> 2, d |-> 26], sec |-> 36000]}
NoMoment == [date |-> NoDate, sec |-> 0]

Record(title, description, priority, due_date, completed) ==
  Task(PyStr(title), PyStr(description), PyInt(priority), PyStr(due_date),
       PyBool(completed))

\* The dict d without one key.
Without(d, key) ==
  PyDict(SelectSeq(d.v, LAMBDA item : item.k # key))

Keys == {K_title, K_description, K_priority, K_due_date, K_completed}

DoneRecord == to_dict(Record(T_Pay, T_Rent, 2, D_0227, TRUE))
OpenRecord == to_dict(Record(T_Pay, T_Rent, 1, D_0301, FALSE))

\* What the file may hold when the program starts: nothing, or one record
\* written without its "completed" key.
InitFiles ==
  { NoFile,
    FileOf(json_dumps(PyList(<<Without(OpenRecord, K_completed)>>))) }

\* What an array in a loaded file may hold: records, records with one key
\* missing, and values that are no record.
Elements ==
  {DoneRecord, OpenRecord}
  \cup {Without(DoneRecord, k) : k \in Keys}
  \cup {PyInt(1), PyStr(K_title), PyList(<<>>)}

\* Proper prefixes of a text (a write that stopped short).
Prefixes(text) == {SubSeq(text, 1, n) : n \in 0..(Len(text) - 1)}

\* The files load_tasks may meet.
LoadFiles ==
  {NoFile}
  \cup {FileOf(json_dumps(PyList(<<>>)))}
  \cup {FileOf(json_dumps(PyList(<<a>>))) : a \in Elements}
  \cup {FileOf(json_dumps(PyList(<<a, b>>))) : a \in Elements, b \in Elements}
  \cup {FileOf(json_dumps(d)) :
          d \in {PyInt(5), PyNone, PyBool(TRUE), PyStr(<<>>), PyStr(T_Pay),
                 PyDict(<<>>), DoneRecord}}
  \cup {FileOf(t) : t \in Prefixes(json_dumps(PyList(<<DoneRecord, OpenRecord>>)))}
  \cup {FileOf(json_dumps(PyList(<<DoneRecord>>)) \o <<Punct("]")>>)}

(***************************************************************************)
(* The program: main() constructs the manager, then calls its methods.     *)
(***************************************************************************)
Call(op) ==
  [op |-> op, args |-> NoInput, index |-> 0, by |-> "", now |-> NoMoment,
   fault |-> "none", inRange |-> FALSE]

\* TaskManager(): tasks = [], then load_tasks().
Construct(f) ==
  LET r == load_tasks(f) IN
    /\ tasks = r.tasks
    /\ raised = r.exc

\* main() handles no exception of the manager's methods: one that leaves a
\* method ends the process, and only a new run follows.
Running == raised = "none"

InitOn(files) ==
  /\ file \in files
  /\ Construct(file)
  /\ call = Call("init")
  /\ returned = "None"
  /\ out = NoOutput
  /\ wrote = "none"

Init == InitOn(InitFiles)

AddFrom(inputs) ==
  \E a \in inputs, fault \in WriteFaults :
    /\ Running
    /\ Len(tasks) < MaxTasks
    /\ LET r == add_task(tasks, file, a.title, a.description, a.priority,
                         a.due_date, fault)
       IN  /\ tasks' = r.tasks
           /\ file' = r.file
           /\ raised' = r.exc
           /\ out' = r.out
    /\ returned' = "None"
    /\ wrote' = IF fault = "none" THEN "ok" ELSE "failed"
    /\ call' = [Call("add_task") EXCEPT !.args = a, !.fault = fault]

AddTask == AddFrom(AddInputs)

ListTasks ==
  /\ Running
  /\ out' = list_tasks(tasks)
  /\ raised' = "none"
  /\ returned' = "None"
  /\ call' = Call("list_tasks")
  /\ UNCHANGED <<tasks, file, wrote>>

SortTasks ==
  \E by \in SortKeys :
    /\ Running
    /\ LET r == sort_tasks(tasks, by)
       IN  /\ tasks' = r.tasks
           /\ out' = r.out
           /\ raised' = r.exc
    /\ returned' = "None"
    /\ call' = [Call("sort_tasks") EXCEPT !.by = by]
    /\ UNCHANGED <<file, wrote>>

MarkComplete ==
  \E index \in -1..MaxTasks, fault \in WriteFaults :
    /\ Running
    /\ InRange(tasks, index) \/ fault = "none"
    /\ LET r == mark_complete(tasks, file, index, fault)
       IN  /\ tasks' = r.tasks
           /\ file' = r.file
           /\ raised' = r.exc
           /\ returned' = r.ret
           /\ out' = r.out
    /\ wrote' = IF ~InRange(tasks, index) THEN wrote
                ELSE IF fault = "none" THEN "ok" ELSE "failed"
    /\ call' = [Call("mark_complete") EXCEPT
                  !.index = index, !.fault = fault,
                  !.inRange = InRange(tasks, index)]

ViewSummary ==
  \E now \in Moments :
    /\ Running
    /\ out' = view_summary(tasks, now)
    /\ raised' = "none"
    /\ returned' = "None"
    /\ call' = [Call("view_summary") EXCEPT !.now = now]
    /\ UNCHANGED <<tasks, file, wrote>>

\* The program is run again on the file the last run left.
Restart ==
  /\ LET r == load_tasks(file)
     IN  /\ tasks' = r.tasks
         /\ raised' = r.exc
  /\ returned' = "None"
  /\ out' = NoOutput
  /\ wrote' = "none"
  /\ call' = Call("init")
  /\ UNCHANGED file

Next ==
  \/ AddTask
  \/ ListTasks
  \/ SortTasks
  \/ MarkComplete
  \/ ViewSummary
  \/ Restart

Spec == Init /\ [][Next]_vars

\* Only add_task is called, on a store constructed on an absent file.
InitAdd == InitOn({NoFile})
AddAny == AddFrom(AllInputs)
NextAdd == AddAny
SpecAdd == InitAdd /\ [][NextAdd]_vars

\* The file is changed from outside between two runs of the program.
Tamper ==
  /\ file' \in LoadFiles
  /\ call' = Call("tamper")
  /\ UNCHANGED <<tasks, raised, returned, out, wrote>>

NextLoad ==
  \/ Tamper
  \/ Restart
SpecLoad == Init /\ [][NextLoad]_vars

(***************************************************************************)
(* Properties.                                                             *)
(***************************************************************************)
Fields(t) == <<t.title, t.description, t.priority, t.due_date>>

\* The step just taken was a call of the method op.
Called(op) == call'.op = op

\* The records stored in file f are the sequence ts, field by field and in order.
StoredEquals(f, ts) ==
  /\ f.exists
  /\ LET d == json_loads(f.text) IN
       /\ d.exc = "none"
       /\ d.val.t = "list"
       /\ Len(d.val.v) = Len(ts)
       /\ \A i \in 1..Len(ts) :
            /\ GetItem(d.val.v[i], K_title) = Value(ts[i].title)
            /\ GetItem(d.val.v[i], K_description) = Value(ts[i].description)
            /\ GetItem(d.val.v[i], K_priority) = Value(ts[i].priority)
            /\ GetItem(d.val.v[i], K_due_date) = Value(ts[i].due_date)
            /\ GetItem(d.val.v[i], K_completed) = Value(ts[i].completed)

\* C1: on a store constructed on an absent file, every add_task call appends
\* one record holding the call's arguments, after the records of the earlier
\* calls, and every record of the store is incomplete.
C1_AddsInCallOrder ==
  /\ tasks = <<>>
  /\ [][Called("add_task") =>
          /\ Len(tasks') = Len(tasks) + 1
          /\ SubSeq(tasks', 1, Len(tasks)) = tasks
          /\ Fields(tasks'[Len(tasks')]) =
               <<call'.args.title, call'.args.description,
                 call'.args.priority, call'.args.due_date>>
          /\ \A i \in 1..Len(tasks') : tasks'[i].completed = PyBool(FALSE)]_vars

C1_TwoAdded ==
  /\ call.op = "add_task"
  /\ Len(tasks) = 2
  /\ tasks[1] # tasks[2]
  /\ Fields(tasks[2]) = <<PyStr(T_Pay), PyStr(T_Rent), PyInt(1), PyStr(D_0227)>>

\* C2: mark_complete(i) with 0 <= i < length sets completed on record i and
\* changes no other record, no other field of record i, and neither the
\* length nor the order of the sequence.
C2_MarkCompleteFrame ==
  [][(Called("mark_complete") /\ 0 <= call'.index /\ call'.index < Len(tasks)) =>
       /\ Len(tasks') = Len(tasks)
       /\ tasks'[call'.index + 1].completed = PyBool(TRUE)
       /\ Fields(tasks'[call'.index + 1]) = Fields(tasks[call'.index + 1])
       /\ \A j \in 1..Len(tasks) : j # call'.index + 1 => tasks'[j] = tasks[j]]_vars

C2_OneOfTwoMarked ==
  /\ call.op = "mark_complete"
  /\ call.index = 1
  /\ Len(tasks) = 2
  /\ tasks[1].completed = PyBool(FALSE)
  /\ tasks[2].completed = PyBool(TRUE)

\* What the caller of a successful mark_complete receives: the value returned
\* and the exception raised.
MarkedOutcome ==
  LET r == mark_complete(<<NoTask>>, NoFile, 0, "none") IN <<r.ret, r.exc>>

OutOfRange == Called("mark_complete") /\ ~(0 <= call'.index /\ call'.index < Len(tasks))

C4_ReloadRoundTrip ==
  [][(Called("init") /\ wrote = "ok") =>
       /\ Len(tasks') = Len(tasks)
       /\ \A i \in 1..Len(tasks) :
            /\ tasks'[i].title = tasks[i].title
            /\ tasks'[i].description = tasks[i].description
            /\ tasks'[i].priority = tasks[i].priority
            /\ tasks'[i].due_date = tasks[i].due_date
            /\ tasks'[i].completed = tasks[i].completed]_vars

C4_ReloadedTwo ==
  /\ call.op = "init"
  /\ Len(tasks) = 2
  /\ tasks[1].completed = PyBool(TRUE)
  /\ tasks[2].completed = PyBool(FALSE)
  /\ tasks[1].due_date # tasks[2].due_date

RequiredKeys == {K_title, K_description, K_priority, K_due_date}

\* The file is absent, is no JSON document, is no array, or holds an element
\* that is no record with the four required keys.
Malformed(f) ==
  \/ ~f.exists
  \/ LET d == json_loads(f.text) IN
       \/ d.exc # "none"
       \/ d.val.t # "list"
       \/ \E i \in 1..Len(d.val.v) :
            \/ d.val.v[i].t # "dict"
            \/ \E k \in RequiredKeys : KeyIndex(d.val.v[i].v, k, 1) = 0

\* C5: constructing a store raises nothing, and on a malformed file it
\* leaves the sequence empty (never the records that precede a bad one).
C5_LoadAllOrNothing ==
  call.op = "init" =>
    /\ raised = "none"
    /\ Malformed(file) => tasks = <<>>

C5_BadRecordAfterGood ==
  /\ call.op = "init"
  /\ file = FileOf(json_dumps(PyList(<<DoneRecord, Without(DoneRecord, K_due_date)>>)))
  /\ tasks = <<>>

\* a <= b in the order of Python's str: at the first place they differ a has
\* the smaller character, or a is a prefix of b.
LexLeq(a, b) ==
  \E k \in 0..Len(a) :
    /\ k <= Len(b)
    /\ \A i \in 1..k : a[i] = b[i]
    /\ \/ k = Len(a)
       \/ k < Len(b) /\ a[k + 1] < b[k + 1]

Count(xs, x) == Cardinality({i \in 1..Len(xs) : xs[i] = x})

IsPermutation(xs, ys) ==
  /\ Len(xs) = Len(ys)
  /\ \A i \in 1..Len(xs) : Count(xs, xs[i]) = Count(ys, xs[i])

\* C6: sort_tasks("due_date") shows a permutation of the records in
\* non-decreasing due_date string order, sort_tasks("priority") one in
\* non-decreasing priority order; the store's sequence and the file are as
\* before the call.
C6_SortedView ==
  [][(Called("sort_tasks") /\ call'.by \in {"due_date", "priority"}) =>
       /\ IsPermutation(out'.rows, tasks)
       /\ call'.by = "due_date" =>
            \A i \in 1..(Len(out'.rows) - 1) :
              LexLeq(out'.rows[i].due_date.v, out'.rows[i + 1].due_date.v)
       /\ call'.by = "priority" =>
            \A i \in 1..(Len(out'.rows) - 1) :
              out'.rows[i].priority.v <= out'.rows[i + 1].priority.v
       /\ tasks' = tasks
       /\ file' = file]_vars

C6_Reordered ==
  /\ call.op = "sort_tasks"
  /\ call.by = "due_date"
  /\ Len(tasks) = 2
  /\ out.rows = <<tasks[2], tasks[1]>>
  /\ tasks[1].due_date # tasks[2].due_date

\* The record is incomplete and its due_date is a calendar date d with
\* today <= d <= today + 3 days.
InWindow(t, today) ==
  /\ t.completed = PyBool(FALSE)
  /\ strptime(t.due_date).exc = "none"
  /\ Ordinal(strptime(t.due_date).val) - Ordinal(today) \in 0..3

\* C7: whatever the moment of the day view_summary runs at, the tasks it
\* lists as due soon are the incomplete records due on a calendar date from
\* today to today + 3 days, in store order.
C7_DueSoonWindow ==
  call.op = "view_summary" =>
    out.rows = SelectSeq(tasks, LAMBDA t : InWindow(t, call.now.date))

\* C8: once add_task or an in-range mark_complete has written the file, the
\* records in the file are the in-memory sequence, and they stay so through
\* the reads and the out-of-range mark_complete calls that follow.
C8_Durable ==
  wrote = "ok" => StoredEquals(file, tasks)

C8_ReadAfterWrite ==
  /\ wrote = "ok"
  /\ call.op = "mark_complete"
  /\ ~call.inRange
  /\ Len(tasks) = 2
  /\ tasks[1].completed = PyBool(TRUE)

Methods == {"add_task", "list_tasks", "sort_tasks", "mark_complete", "view_summary"}

\* C9: a call whose write fails raises to its caller; a call that returns
\* either leaves the sequence and the file as they were or leaves a file
\* that holds the sequence.
C9_WriteFailurePropagates ==
  [][(call'.op \in Methods) =>
       IF call'.fault # "none"
       THEN raised' = "OSError"
       ELSE /\ raised' = "none"
            /\ \/ tasks' = tasks /\ file' = file
               \/ StoredEquals(file', tasks')]_vars

C9_FailedWrite ==
  /\ call.op = "add_task"
  /\ call.fault = "truncated"
  /\ raised = "OSError"
  /\ Len(tasks) = 2
  /\ ~StoredEquals(file, tasks)

\* C10: no method call shortens the sequence, changes the title, description,
\* priority or due_date of the record at a position, or clears a completed
\* flag.
C10_Monotonic ==
  [][(call'.op \in Methods) =>
       /\ Len(tasks') >= Len(tasks)
       /\ \A i \in 1..Len(tasks) :
            /\ Fields(tasks'[i]) = Fields(tasks[i])
            /\ Truthy(tasks[i].completed) => Truthy(tasks'[i].completed)]_vars

C10_SortShownOtherOrder ==
  /\ call.op = "sort_tasks"
  /\ call.by = "priority"
  /\ Len(tasks) = 2
  /\ out.rows = <<tasks[2], tasks[1]>>
  /\ tasks[1].priority # tasks[2].priority
  /\ tasks[2].completed = PyBool(TRUE)

====
